---------------------------- MODULE Spec2Model ----------------------------
(* aw3d30-parquet: list the AW3D30 tiles of an S3 bucket, download them    *)
(* with a bounded stream of fetch tasks and convert each to Parquet on     *)
(* the blocking pool.  Model of src/main.rs.                               *)
EXTENDS Integers, Sequences, FiniteSets, TLC

VARIABLES
    catalog,      \* remote bucket content under PREFIX: sequence of entries (key, size)
    set,          \* Opt.set: the region preset
    signals,      \* whether the provider answers the last page with is_truncated = false
    run,          \* number of the current process run
    prevOutcome,  \* how the previous run ended: "done", "failed" or "killed"
    pcMain,       \* position of main
    req,          \* req.continuation_token (0 = None)
    resp,         \* last ListObjectsV2Output received: is_truncated, next_continuation_token
    objects,      \* Vec of (key, size) collected by the listing loop
    nextIdx,      \* position of stream::iter(objects)
    inProgress,   \* buffer_unordered's queue of download JoinHandles
    futures,      \* try_for_each_concurrent's set of write JoinHandles
    fpc,          \* per listed object: position of its download_object task
    wpc,          \* per listed object: position of its write_parquet task
    decoded,      \* per listed object: the raster content write_parquet read
    pool,         \* per listed object: where its download task and its write closure run
    tif,          \* tif_dir: file name -> raw file
    pq,           \* parquet_dir: file name -> output file
    tif0,         \* tif_dir as it was when the current run started
    pq0,          \* parquet_dir as it was when the current run started
    ident,        \* a key given to the closure of the listing filter
    coordinate,   \* what re.captures and Coordinate::try_from made of ident
    keep,         \* what the closure of the listing filter answered for ident
    raster,       \* a dataset given to the decode of write_parquet
    pixels        \* the lat, lon and elevation vectors the decode built from raster

vars == <<catalog, set, signals, run, prevOutcome, pcMain, req, resp, objects,
          nextIdx, inProgress, futures, fpc, wpc, decoded, pool, tif, pq, tif0, pq0,
          ident, coordinate, keep, raster, pixels>>

procVars == <<pcMain, req, resp, objects, nextIdx, inProgress, futures, fpc, wpc, decoded, pool>>
fnVars == <<ident, coordinate, keep, raster, pixels>>
envVars == <<catalog, set, signals, fnVars>>
runVars == <<run, prevOutcome, tif0, pq0>>

-----------------------------------------------------------------------------
(* Bounds of the model.                                                    *)
MaxEntries == 2     \* entries of the remote catalog
MaxPage == 2        \* entries the provider puts on one page
MaxRuns == 2        \* process runs over the same directories
MaxWidth == 2       \* x_size of a raster band
MaxHeight == 2      \* y_size of a raster band

-----------------------------------------------------------------------------
(* Strings are sequences of one-character strings.                         *)
Min(a, b) == IF a <= b THEN a ELSE b

\* s[a..b], cut at the end of s; empty when the range is.
Slice(s, a, b) == [k \in 1..(Min(b, Len(s)) - a + 1) |-> s[a + k - 1]]

Digits == {"0", "1", "2", "3", "4", "5", "6", "7", "8", "9"}

DigitVal(c) ==
    CASE c = "0" -> 0 [] c = "1" -> 1 [] c = "2" -> 2 [] c = "3" -> 3
      [] c = "4" -> 4 [] c = "5" -> 5 [] c = "6" -> 6 [] c = "7" -> 7
      [] c = "8" -> 8 [] c = "9" -> 9

RE_PREFIX == <<"A", "L", "P", "S", "M", "L", "C", "3", "0", "_">>
RE_SUFFIX == <<"_", "D", "S", "M">>

\* Mutant: the pattern ends with the longitude digits.
MatchAtMut(s, p) ==
    /\ p + 17 <= Len(s)
    /\ Slice(s, p, p + 9) = RE_PREFIX
    /\ s[p + 10] \in {"N", "S"}
    /\ \A k \in (p + 11)..(p + 13) : s[k] \in Digits
    /\ s[p + 14] \in {"E", "W"}
    /\ \A k \in (p + 15)..(p + 17) : s[k] \in Digits

\* Whether the pattern matches the text starting at position p.
MatchAt(s, p) ==
    /\ p + 21 <= Len(s)
    /\ Slice(s, p, p + 9) = RE_PREFIX
    /\ s[p + 10] \in {"N", "S"}
    /\ \A k \in (p + 11)..(p + 13) : s[k] \in Digits
    /\ s[p + 14] \in {"E", "W"}
    /\ \A k \in (p + 15)..(p + 17) : s[k] \in Digits
    /\ Slice(s, p + 18, p + 21) = RE_SUFFIX

NoCap == [found |-> FALSE, y |-> "", lat |-> <<>>, x |-> "", lon |-> <<>>]

\* re.captures(key): the leftmost match anywhere in the key (the pattern is unanchored).
ReCaptures(s) ==
    LET hits == {p \in 1..Len(s) : MatchAt(s, p)}
    IN  IF hits = {} THEN NoCap
        ELSE LET p == CHOOSE q \in hits : \A r \in hits : q <= r
             IN  [found |-> TRUE, y |-> s[p + 10], lat |-> Slice(s, p + 11, p + 13),
                  x |-> s[p + 14], lon |-> Slice(s, p + 15, p + 17)]

\* str::parse::<u8> of a run of decimal digits: None (-1) above u8::MAX.
ParseU8(ds) ==
    LET v == 100 * DigitVal(ds[1]) + 10 * DigitVal(ds[2]) + DigitVal(ds[3])
    IN  IF v <= 255 THEN v ELSE -1

NotATile == [ok |-> FALSE, lat |-> [h |-> "", v |-> 0], lon |-> [h |-> "", v |-> 0]]

CoordinateTryFrom(cap) ==
    LET y == ParseU8(cap.lat)
        x == ParseU8(cap.lon)
    IN  IF y = -1 \/ cap.y \notin {"N", "S"} THEN NotATile
        ELSE IF x = -1 \/ cap.x \notin {"E", "W"} THEN NotATile
        ELSE [ok |-> TRUE,
              lat |-> [h |-> IF cap.y = "N" THEN "North" ELSE "South", v |-> y],
              lon |-> [h |-> IF cap.x = "E" THEN "East" ELSE "West", v |-> x]]

\* Mutant: the East band of Europe ends one degree early and Netherlands
\* takes either longitude hemisphere.
SetFilterMut(s, c) ==
    CASE s = "Netherlands" ->
            /\ c.lat.h = "North" /\ c.lat.v \in 50..53
            /\ c.lon.v \in 3..7
      [] s = "Europe" ->
            /\ c.lat.h = "North" /\ c.lat.v \in 23..80
            /\ \/ c.lon.h = "West" /\ c.lon.v <= 25
               \/ c.lon.h = "East" /\ c.lon.v < 49
      [] s = "World" -> TRUE

SetFilter(s, c) ==
    CASE s = "Netherlands" ->
            /\ c.lat.h = "North" /\ c.lat.v \in 50..53
            /\ c.lon.h = "East" /\ c.lon.v \in 3..7
      [] s = "Europe" ->
            /\ c.lat.h = "North" /\ c.lat.v \in 23..80
            /\ \/ c.lon.h = "West" /\ c.lon.v <= 25
               \/ c.lon.h = "East" /\ c.lon.v <= 49
      [] s = "World" -> TRUE

\* re.captures(key).and_then(|cap| Coordinate::try_from(cap).ok())
Parse(key) ==
    LET cap == ReCaptures(key)
    IN  IF cap.found THEN CoordinateTryFrom(cap) ELSE NotATile

\* The closure given to .filter in the listing loop.
KeepKey(s, key) ==
    LET cap == ReCaptures(key)
    IN  /\ cap.found
        /\ LET c == CoordinateTryFrom(cap) IN c.ok /\ SetFilter(s, c)

-----------------------------------------------------------------------------
(* Paths.                                                                  *)
LastIndexOf(s, c) ==
    LET at == {k \in 1..Len(s) : s[k] = c}
    IN  IF at = {} THEN 0 ELSE CHOOSE k \in at : \A j \in at : j <= k

\* Path::new(&key).file_name(): the final path segment.
FileName(key) == Slice(key, LastIndexOf(key, "/") + 1, Len(key))

\* Path::file_stem / the part with_extension keeps: the name up to its last dot
\* (the whole name when it has no dot, or only a leading one).
FileStem(name) ==
    LET d == LastIndexOf(name, ".")
    IN  IF d <= 1 THEN name ELSE Slice(name, 1, d - 1)

\* tif_dir.join(file_name)
RawPath(key) == FileName(key)

\* parquet_dir.join(input_path.file_stem()).with_extension("parquet")
OutputPath(inputPath) ==
    FileStem(FileStem(inputPath)) \o <<".", "p", "a", "r", "q", "u", "e", "t">>

-----------------------------------------------------------------------------
(* The remote catalogs the model runs over.                                *)
MkKey(dir, y, lat, x, lon, ext) ==
    dir \o RE_PREFIX \o <<y>> \o lat \o <<x>> \o lon \o RE_SUFFIX \o ext

TIF == <<".", "t", "i", "f">>

Master ==
    << [key |-> MkKey(<<"a", "/">>, "N", <<"0", "5", "2">>, "E", <<"0", "0", "4">>, TIF), size |-> 2],
       [key |-> MkKey(<<"b", "/">>, "N", <<"0", "5", "2">>, "E", <<"0", "0", "4">>, TIF), size |-> 1],
       [key |-> MkKey(<<"a", "/">>, "S", <<"0", "1", "0">>, "W", <<"0", "7", "0">>, TIF), size |-> 1],
       [key |-> <<"a", "/", "r", "e", "a", "d", "m", "e">>, size |-> 1],
       [key |-> MkKey(<<"a", "/">>, "N", <<"0", "6", "0">>, "E", <<"0", "1", "0">>, TIF), size |-> 1] >>

\* In the state an entry (key, size) is held as its position in Master, and so is
\* the body of the remote object of that key.
Entries == 1..Len(Master)
EntryIds == [e \in Entries |-> e]

Catalogs ==
    {c \in {Slice(EntryIds, a, b) : a \in Entries, b \in 0..Len(Master)} :
        Len(c) <= MaxEntries}

Sets == {"Netherlands", "Europe", "World"}

\* Whether the listing filter keeps entry e under preset s.
Kept == [s \in Sets |-> [e \in Entries |-> KeepKey(s, Master[e].key)]]

\* A file of a directory is held as the first entry whose key leads to its path.
RawPathOfEntry(e) == RawPath(Master[e].key)
OutputPathOfEntry(e) == OutputPath(RawPath(Master[e].key))
SameRawPath(e) == {k \in Entries : RawPathOfEntry(k) = RawPathOfEntry(e)}
SameOutputPath(e) == {k \in Entries : OutputPathOfEntry(k) = OutputPathOfEntry(e)}
FirstOf(S) == CHOOSE k \in S : \A j \in S : k <= j
RawFile == [e \in Entries |-> FirstOf(SameRawPath(e))]
OutputFile == [e \in Entries |-> FirstOf(SameOutputPath(e))]

NoFile == [ex |-> FALSE, len |-> 0, src |-> 0]
NoOut == [ex |-> FALSE, closed |-> FALSE, from |-> NoFile]

-----------------------------------------------------------------------------
(* The functions of the program taken on their own: their inputs and       *)
(* results before any of them is applied.                                  *)
Unparsed == [ok |-> FALSE, lat |-> [h |-> "?", v |-> 0], lon |-> [h |-> "?", v |-> 0]]
NoRaster == [w |-> 0, h |-> 0, gt |-> <<>>, data |-> <<>>]
NoPixels == [lat |-> <<>>, lon |-> <<>>, elevation |-> <<>>]

FnIdle ==
    /\ ident = <<>>
    /\ coordinate = Unparsed
    /\ keep = "unset"
    /\ raster = NoRaster
    /\ pixels = NoPixels

-----------------------------------------------------------------------------
(* State of a freshly started process.                                     *)
\* The modelled runs are not over.
Alive == run <= MaxRuns

NoResp == [contents |-> <<>>, is_truncated |-> "unset", next_continuation_token |-> 0]

ProcInit ==
    /\ pcMain = "list"
    /\ req = 0
    /\ resp = NoResp
    /\ objects = <<>>
    /\ nextIdx = 1
    /\ inProgress = {}
    /\ futures = {}
    /\ fpc = <<>>
    /\ wpc = <<>>
    /\ decoded = <<>>
    /\ pool = <<>>

Init ==
    /\ catalog \in Catalogs
    /\ set \in Sets
    /\ signals \in BOOLEAN
    /\ run = 1
    /\ prevOutcome = "none"
    /\ ProcInit
    /\ tif = [p \in Entries |-> NoFile]
    /\ pq = [p \in Entries |-> NoOut]
    /\ tif0 = tif
    /\ pq0 = pq
    /\ FnIdle

-----------------------------------------------------------------------------
(* The listing loop of main.                                               *)

\* The provider's answer to a request carrying token t, with n entries on the page:
\* the page starts where the token says (at the first entry without a token).
PageStart(t) == IF t = 0 THEN 1 ELSE t
PageEntries(t, n) ==
    Slice(catalog, PageStart(t), PageStart(t) + n - 1)
IsLastPage(t, n) == PageStart(t) + n > Len(catalog)

\* contents.into_iter().map(..).filter(..): the kept (key, size) pairs of one page.
FilterPage(page) == SelectSeq(page, LAMBDA e : Kept[set][e])

\* Mutant: a page is put in front of what was collected.
ExtendObjectsMut(objs, page) == FilterPage(page) \o objs

\* objects.extend(..)
ExtendObjects(objs, page) == objs \o FilterPage(page)

\* req.continuation_token = next_continuation_token
NextRequestToken(r) == r.next_continuation_token

\* Mutant: an absent flag ends the loop too.
LoopBreaksMut(r) == r.is_truncated # "true"

\* if let Some(false) = is_truncated { break }
LoopBreaks(r) == r.is_truncated = "false"

Idle(objs) == [i \in 1..Len(objs) |-> "idle"]

\* Where the tasks of a listed object run: nowhere before they are spawned.
NotSpawned == [fetch |-> "none", write |-> "none"]

\* task::spawn hands a future to the runtime's workers, which drive the I/O.
SpawnContext == "io"

\* Mutant: the write closure is given to task::spawn.
SpawnBlockingContextMut == "io"

\* task::spawn_blocking hands a closure to the blocking pool.
SpawnBlockingContext == "blocking"

\* One iteration of the loop: request, response, extend, next token, break test.
ListObjects ==
    /\ Alive /\ pcMain = "list"
    /\ Len(objects) <= MaxEntries
    /\ \E n \in 1..MaxPage, flag \in {"true", "none", "false"} :
         LET last == IsLastPage(req, n)
             r == [contents |-> PageEntries(req, n),
                   is_truncated |-> flag,
                   next_continuation_token |-> IF last THEN 0 ELSE PageStart(req) + n]
         IN  /\ flag = "false" <=> (last /\ signals)
             /\ resp' = r
             /\ objects' = ExtendObjects(objects, r.contents)
             /\ req' = NextRequestToken(r)
             /\ pcMain' = IF LoopBreaks(r) THEN "listed" ELSE "list"
    /\ UNCHANGED <<nextIdx, inProgress, futures, fpc, wpc, decoded, pool, tif, pq>>
    /\ UNCHANGED <<envVars, runVars>>

\* client.list_objects_v2(..).await? returns the error from main.
ListFail ==
    /\ Alive /\ pcMain = "list"
    /\ pcMain' = "err"
    /\ UNCHANGED <<req, resp, objects, nextIdx, inProgress, futures, fpc, wpc, decoded, pool>>
    /\ UNCHANGED <<tif, pq, envVars, runVars>>

\* "Downloading {} files": the stream over the listed objects is built; no task
\* exists yet.  The last response went out of scope with the loop.
StartStream ==
    /\ Alive /\ pcMain = "listed"
    /\ pcMain' = "fill"
    /\ resp' = NoResp
    /\ fpc' = Idle(objects)
    /\ wpc' = Idle(objects)
    /\ decoded' = [i \in 1..Len(objects) |-> NoFile]
    /\ pool' = [i \in 1..Len(objects) |-> NotSpawned]
    /\ UNCHANGED <<req, objects, nextIdx, inProgress, futures>>
    /\ UNCHANGED <<tif, pq, envVars, runVars>>

-----------------------------------------------------------------------------
(* download_object, one task per listed object.                            *)
Tiles == 1..Len(objects)
KeyOf(i) == objects[i]
SizeOf(i) == Master[objects[i]].size

\* let path = tif_dir.join(Path::new(&key).file_name().unwrap()), returned as
\* Ok(path) and unwrapped as input_path
InputPath(i) == RawFile[objects[i]]

\* parquet_dir.join(input_path.file_stem().unwrap()).with_extension("parquet")
OutPath(i) == OutputFile[objects[i]]

\* Mutant: the skip test looks at existence only.
SkipDownloadMut(f, size) == f.ex

\* path.exists() && path.metadata().unwrap().len() == size
SkipDownload(f, size) == f.ex /\ f.len = size

FetchRunning(i) == fpc[i] \in {"start", "created", "copying"}
FetchOk(i) == fpc[i] \in {"okSkip", "okGot"}

\* The skip branch: no request, the file is left alone, Ok(path).
DownloadSkip(i) ==
    /\ Alive /\ i \in DOMAIN fpc /\ fpc[i] = "start"
    /\ SkipDownload(tif[InputPath(i)], SizeOf(i))
    /\ fpc' = [fpc EXCEPT ![i] = "okSkip"]
    /\ UNCHANGED <<pcMain, req, resp, objects, nextIdx, inProgress, futures, wpc, decoded, pool>>
    /\ UNCHANGED <<tif, pq, envVars, runVars>>

\* File::create(&path).await?: the file is created or truncated, or the task returns Err.
DownloadCreate(i) ==
    /\ Alive /\ i \in DOMAIN fpc /\ fpc[i] = "start"
    /\ ~SkipDownload(tif[InputPath(i)], SizeOf(i))
    /\ \/ /\ tif' = [tif EXCEPT ![InputPath(i)] = [ex |-> TRUE, len |-> 0, src |-> KeyOf(i)]]
          /\ fpc' = [fpc EXCEPT ![i] = "created"]
       \/ /\ fpc' = [fpc EXCEPT ![i] = "err"]
          /\ UNCHANGED tif
    /\ UNCHANGED <<pcMain, req, resp, objects, nextIdx, inProgress, futures, wpc, decoded, pool>>
    /\ UNCHANGED <<pq, envVars, runVars>>

\* client.get_object(..).await?.body.unwrap(): a body, an error, or a panic on no body.
GetObject(i) ==
    /\ Alive /\ i \in DOMAIN fpc /\ fpc[i] = "created"
    /\ \E r \in {"copying", "err", "panic"} : fpc' = [fpc EXCEPT ![i] = r]
    /\ UNCHANGED <<pcMain, req, resp, objects, nextIdx, inProgress, futures, wpc, decoded, pool>>
    /\ UNCHANGED <<tif, pq, envVars, runVars>>

\* tokio::io::copy: the body reaches the file piece by piece; the task returns
\* Ok(path) when the body (of the listed size) is through.
CopyBody(i) ==
    /\ Alive /\ i \in DOMAIN fpc /\ fpc[i] = "copying"
    /\ LET p == InputPath(i)
           n == tif[p].len + 1
       IN  /\ tif' = [tif EXCEPT ![p] = [ex |-> TRUE, len |-> n, src |-> KeyOf(i)]]
           /\ fpc' = [fpc EXCEPT ![i] = IF n >= SizeOf(i) THEN "okGot" ELSE "copying"]
    /\ UNCHANGED <<pcMain, req, resp, objects, nextIdx, inProgress, futures, wpc, decoded, pool>>
    /\ UNCHANGED <<pq, envVars, runVars>>

\* tokio::io::copy(..).await? fails part way.
CopyFail(i) ==
    /\ Alive /\ i \in DOMAIN fpc /\ fpc[i] = "copying"
    /\ fpc' = [fpc EXCEPT ![i] = "err"]
    /\ UNCHANGED <<pcMain, req, resp, objects, nextIdx, inProgress, futures, wpc, decoded, pool>>
    /\ UNCHANGED <<tif, pq, envVars, runVars>>

-----------------------------------------------------------------------------
(* write_parquet inside spawn_blocking, one task per fetched object.       *)
WriteSteps == {"next_row_group", "lat", "lon", "elevation", "close_row_group", "close"}

WriteRunning(i) == wpc[i] \in {"opening", "decoded", "created"}
WriteOk(i) == wpc[i] \in {"okSkip", "okWrote"}

\* Mutant: only a finished output file is skipped.
SkipWriteMut(o) == o.ex /\ o.closed

\* if !output_path.exists() { .. } else { skip }
SkipWrite(o) == o.ex

\* The else branch: Ok(()) without touching anything.
WriteSkip(i) ==
    /\ Alive /\ i \in DOMAIN wpc /\ wpc[i] = "queued"
    /\ SkipWrite(pq[OutPath(i)])
    /\ wpc' = [wpc EXCEPT ![i] = "okSkip"]
    /\ UNCHANGED <<pcMain, req, resp, objects, nextIdx, inProgress, futures, fpc, decoded, pool>>
    /\ UNCHANGED <<tif, pq, envVars, runVars>>

\* The output path does not exist: the closure goes on to the decode.
CheckOutput(i) ==
    /\ Alive /\ i \in DOMAIN wpc /\ wpc[i] = "queued"
    /\ ~SkipWrite(pq[OutPath(i)])
    /\ wpc' = [wpc EXCEPT ![i] = "opening"]
    /\ UNCHANGED <<pcMain, req, resp, objects, nextIdx, inProgress, futures, fpc, decoded, pool>>
    /\ UNCHANGED <<tif, pq, envVars, runVars>>

\* Dataset::open, geo_transform, rasterband(1), read_band_as: the three vectors are
\* built from what the raw file holds at that moment.
Decode(i) ==
    /\ Alive /\ i \in DOMAIN wpc /\ wpc[i] = "opening"
    /\ tif[InputPath(i)].ex
    /\ decoded' = [decoded EXCEPT ![i] = tif[InputPath(i)]]
    /\ wpc' = [wpc EXCEPT ![i] = "decoded"]
    /\ UNCHANGED <<pcMain, req, resp, objects, nextIdx, inProgress, futures, fpc, pool>>
    /\ UNCHANGED <<tif, pq, envVars, runVars>>

\* One of the four `?` of the decode returns Err; the unwrap in the closure panics.
DecodeFail(i) ==
    /\ Alive /\ i \in DOMAIN wpc /\ wpc[i] = "opening"
    /\ wpc' = [wpc EXCEPT ![i] = "panic"]
    /\ UNCHANGED <<pcMain, req, resp, objects, nextIdx, inProgress, futures, fpc, decoded, pool>>
    /\ UNCHANGED <<tif, pq, envVars, runVars>>

\* What the output directory holds once std::fs::File::create(output_path) succeeded.
CreatedOutput(i) == [ex |-> TRUE, closed |-> FALSE, from |-> decoded[i]]

\* What it holds after an Err of a later step of write_parquet: nothing removes the file.
OutputAfterError(o) == o

\* SerializedFileWriter::new(std::fs::File::create(output_path)?, ..)?
WriteCreate(i) ==
    /\ Alive /\ i \in DOMAIN wpc /\ wpc[i] = "decoded"
    /\ \/ /\ pq' = [pq EXCEPT ![OutPath(i)] = CreatedOutput(i)]
          /\ wpc' = [wpc EXCEPT ![i] = "created"]
       \/ /\ pq' = [pq EXCEPT ![OutPath(i)] = OutputAfterError(CreatedOutput(i))]
          /\ wpc' = [wpc EXCEPT ![i] = "panic"]
       \/ /\ wpc' = [wpc EXCEPT ![i] = "panic"]
          /\ UNCHANGED pq
    /\ UNCHANGED <<pcMain, req, resp, objects, nextIdx, inProgress, futures, fpc, decoded, pool>>
    /\ UNCHANGED <<tif, envVars, runVars>>

\* next_row_group, the three columns, close_row_group and close all succeed.
WriteColumns(i) ==
    /\ Alive /\ i \in DOMAIN wpc /\ wpc[i] = "created"
    /\ pq' = [pq EXCEPT ![OutPath(i)] = [ex |-> TRUE, closed |-> TRUE, from |-> decoded[i]]]
    /\ wpc' = [wpc EXCEPT ![i] = "okWrote"]
    /\ UNCHANGED <<pcMain, req, resp, objects, nextIdx, inProgress, futures, fpc, decoded, pool>>
    /\ UNCHANGED <<tif, envVars, runVars>>

\* One of the steps after the creation returns Err; the unwrap in the closure panics.
WriteFail(i) ==
    /\ Alive /\ i \in DOMAIN wpc /\ wpc[i] = "created"
    /\ \E step \in WriteSteps :
         /\ pq' = [pq EXCEPT ![OutPath(i)] = OutputAfterError(pq[OutPath(i)])]
         /\ wpc' = [wpc EXCEPT ![i] = "panic"]
    /\ UNCHANGED <<pcMain, req, resp, objects, nextIdx, inProgress, futures, fpc, decoded, pool>>
    /\ UNCHANGED <<tif, envVars, runVars>>

-----------------------------------------------------------------------------
(* The stream of main: iter -> map(spawn) -> buffer_unordered ->            *)
(* try_for_each_concurrent.  One poll of try_for_each_concurrent polls the  *)
(* stream (fill the buffer, then poll its queue) and then its futures.      *)

\* Mutant: the buffer admits two downloads.
BufferLimitMut == 1 + 1

\* .buffer_unordered(1)
BufferLimit == 1

\* Mutant: a download's handle counts as ready as soon as the task is spawned.
JoinReadyMut(i) == fpc[i] # "idle"

\* A download JoinHandle is ready once its task returned or panicked.
JoinReady(i) == fpc[i] \in {"okSkip", "okGot", "err", "panic"}

\* Mutant: a write that took the skip branch never wakes main.
WriteReadyMut(i) == wpc[i] \in {"okWrote", "panic"}

\* A write JoinHandle is ready once the closure returned or panicked.
WriteReady(i) == wpc[i] \in {"okSkip", "okWrote", "panic"}

StreamExhausted == nextIdx > Len(objects) /\ inProgress = {}

\* Mutant: the end of the stream alone ends the run, writes still pending.
AllDoneMut == StreamExhausted

\* try_for_each_concurrent returns Ok(()) when the stream ended and no future is left.
AllDone == StreamExhausted /\ futures = {}

\* main is polled when the stream is new, after an iteration that made progress,
\* and when a finished task wakes it: then there is a download to spawn, a ready
\* handle to take, or the end to report.  Otherwise it stays suspended.
Woken ==
    \/ nextIdx <= Len(objects) /\ Cardinality(inProgress) < BufferLimit
    \/ \E i \in inProgress : JoinReady(i)
    \/ \E i \in futures : WriteReady(i)
    \/ AllDone

\* buffer_unordered fills its queue: task::spawn(download_object(..)) for the next
\* objects while fewer than the limit are queued.
MainFill ==
    /\ Alive /\ pcMain = "fill"
    /\ Woken
    /\ LET room == BufferLimit - Cardinality(inProgress)
           new == nextIdx..Min(nextIdx + room - 1, Len(objects))
       IN  /\ fpc' = [i \in DOMAIN fpc |-> IF i \in new THEN "start" ELSE fpc[i]]
           /\ inProgress' = inProgress \cup new
           /\ nextIdx' = nextIdx + Cardinality(new)
           /\ pool' = [i \in DOMAIN pool |->
                         IF i \in new THEN [pool[i] EXCEPT !.fetch = SpawnContext]
                         ELSE pool[i]]
    /\ pcMain' = "pollq"
    /\ UNCHANGED <<req, resp, objects, futures, wpc, decoded>>
    /\ UNCHANGED <<tif, pq, envVars, runVars>>

\* Mutant: a failed download is dropped and the stream goes on.
MainYieldMut(i) ==
    /\ Alive /\ pcMain = "pollq"
    /\ i \in inProgress /\ JoinReady(i)
    /\ inProgress' = inProgress \ {i}
    /\ IF fpc[i] \in {"err", "panic"}
        THEN UNCHANGED <<futures, wpc, pool>>
        ELSE /\ wpc' = [wpc EXCEPT ![i] = "queued"]
             /\ pool' = [pool EXCEPT ![i].write = SpawnBlockingContext]
             /\ futures' = futures \cup {i}
    /\ pcMain' = "futures"
    /\ UNCHANGED <<req, resp, objects, nextIdx, fpc, decoded>>
    /\ UNCHANGED <<tif, pq, envVars, runVars>>

\* buffer_unordered yields a finished download; the closure unwraps the path and
\* hands write_parquet to spawn_blocking.  Err(path) panics main in the unwrap; a
\* JoinError ends try_for_each_concurrent with that error.
MainYield(i) ==
    /\ Alive /\ pcMain = "pollq"
    /\ i \in inProgress /\ JoinReady(i)
    /\ inProgress' = inProgress \ {i}
    /\ CASE fpc[i] = "err" ->
              /\ pcMain' = "panic"
              /\ UNCHANGED <<futures, wpc, pool>>
         [] fpc[i] = "panic" ->
              /\ pcMain' = "err"
              /\ UNCHANGED <<futures, wpc, pool>>
         [] OTHER ->
              /\ wpc' = [wpc EXCEPT ![i] = "queued"]
              /\ pool' = [pool EXCEPT ![i].write = SpawnBlockingContext]
              /\ futures' = futures \cup {i}
              /\ pcMain' = "futures"
    /\ UNCHANGED <<req, resp, objects, nextIdx, fpc, decoded>>
    /\ UNCHANGED <<tif, pq, envVars, runVars>>

\* No queued download is ready (Pending), or the stream has ended.
MainNoYield ==
    /\ Alive /\ pcMain = "pollq"
    /\ \A i \in inProgress : ~JoinReady(i)
    /\ pcMain' = "futures"
    /\ UNCHANGED <<req, resp, objects, nextIdx, inProgress, futures, fpc, wpc, decoded, pool>>
    /\ UNCHANGED <<tif, pq, envVars, runVars>>

\* A finished write is taken out of the futures; a panicked one ends the run with
\* its JoinError.
MainJoinWrite(i) ==
    /\ Alive /\ pcMain = "futures"
    /\ i \in futures /\ WriteReady(i)
    /\ IF wpc[i] = "panic"
        THEN pcMain' = "err" /\ futures' = {}
        ELSE pcMain' = "fill" /\ futures' = futures \ {i}
    /\ UNCHANGED <<req, resp, objects, nextIdx, inProgress, fpc, wpc, decoded, pool>>
    /\ UNCHANGED <<tif, pq, envVars, runVars>>

\* No write is ready: Ok(()) ("Done") when everything is through, else Pending.
MainNoJoin ==
    /\ Alive /\ pcMain = "futures"
    /\ \A i \in futures : ~WriteReady(i)
    /\ pcMain' = IF AllDone THEN "done" ELSE "fill"
    /\ UNCHANGED <<req, resp, objects, nextIdx, inProgress, futures, fpc, wpc, decoded, pool>>
    /\ UNCHANGED <<tif, pq, envVars, runVars>>

-----------------------------------------------------------------------------
(* The end of a process and the start of the next run over the same        *)
(* catalog and directories.                                                *)
MainEnded == pcMain \in {"done", "err", "panic"}

NewRun(outcome) ==
    /\ run' = run + 1
    /\ prevOutcome' = outcome
    /\ pcMain' = "list"
    /\ req' = 0
    /\ resp' = NoResp
    /\ objects' = <<>>
    /\ nextIdx' = 1
    /\ inProgress' = {}
    /\ futures' = {}
    /\ fpc' = <<>>
    /\ wpc' = <<>>
    /\ decoded' = <<>>
    /\ pool' = <<>>
    /\ tif0' = tif
    /\ pq0' = pq
    /\ UNCHANGED <<tif, pq, envVars>>

\* main returned or panicked: the runtime is dropped, which waits for the blocking
\* closures that are running and drops every other task.
ProcessExit ==
    /\ Alive /\ MainEnded
    /\ \A i \in DOMAIN wpc : ~WriteRunning(i)
    /\ NewRun(IF pcMain = "done" THEN "done" ELSE "failed")

\* The process is terminated from outside, wherever it is.
Kill ==
    /\ Alive /\ ~MainEnded
    /\ NewRun("killed")

Next ==
    \/ ListObjects
    \/ ListFail
    \/ StartStream
    \/ MainFill
    \/ \E i \in Tiles : MainYield(i)
    \/ MainNoYield
    \/ \E i \in Tiles : MainJoinWrite(i)
    \/ MainNoJoin
    \/ \E i \in Tiles : DownloadSkip(i)
    \/ \E i \in Tiles : DownloadCreate(i)
    \/ \E i \in Tiles : GetObject(i)
    \/ \E i \in Tiles : CopyBody(i)
    \/ \E i \in Tiles : CopyFail(i)
    \/ \E i \in Tiles : WriteSkip(i)
    \/ \E i \in Tiles : CheckOutput(i)
    \/ \E i \in Tiles : Decode(i)
    \/ \E i \in Tiles : DecodeFail(i)
    \/ \E i \in Tiles : WriteCreate(i)
    \/ \E i \in Tiles : WriteColumns(i)
    \/ \E i \in Tiles : WriteFail(i)
    \/ ProcessExit
    \/ Kill

Spec == Init /\ [][Next]_vars

\* The listing loop on its own: every request is answered, with a page or an error.
ListNext == ListObjects \/ ListFail

SpecListing == Init /\ [][ListNext]_vars /\ WF_vars(ListNext)

\* A step in which nothing fails: no listing error, no Err or panic of a download
\* task, no Err of write_parquet.
NoFailure ==
    /\ pcMain' \notin {"err", "panic"}
    /\ \A i \in DOMAIN fpc' : fpc'[i] \notin {"err", "panic"}
    /\ \A i \in DOMAIN wpc' : wpc'[i] # "panic"

\* The steps of the main task, of one download task and of one blocking closure
\* in runs without failure that nobody interrupts.
PipeMain ==
    \/ ListObjects /\ NoFailure
    \/ StartStream /\ NoFailure
    \/ MainFill /\ NoFailure
    \/ \E i \in Tiles : MainYield(i) /\ NoFailure
    \/ MainNoYield /\ NoFailure
    \/ \E i \in Tiles : MainJoinWrite(i) /\ NoFailure
    \/ MainNoJoin /\ NoFailure
    \/ ProcessExit /\ NoFailure

PipeFetch(i) ==
    \/ DownloadSkip(i) /\ NoFailure
    \/ DownloadCreate(i) /\ NoFailure
    \/ GetObject(i) /\ NoFailure
    \/ CopyBody(i) /\ NoFailure

PipeWrite(i) ==
    \/ WriteSkip(i) /\ NoFailure
    \/ CheckOutput(i) /\ NoFailure
    \/ Decode(i) /\ NoFailure
    \/ WriteCreate(i) /\ NoFailure
    \/ WriteColumns(i) /\ NoFailure

PipeNext ==
    \/ PipeMain
    \/ \E i \in Tiles : PipeFetch(i)
    \/ \E i \in Tiles : PipeWrite(i)

\* The runtime polls the main task when it is woken, and runs every spawned
\* download task and every blocking closure that can take a step.
PipeFairness ==
    /\ WF_vars(PipeMain)
    /\ \A i \in 1..MaxEntries : WF_vars(PipeFetch(i))
    /\ \A i \in 1..MaxEntries : WF_vars(PipeWrite(i))

SpecPipeline == Init /\ [][PipeNext]_vars /\ PipeFairness

-----------------------------------------------------------------------------
(* The closure of the listing filter on its own, over a set of keys.       *)
DigitChar(d) ==
    CASE d = 0 -> "0" [] d = 1 -> "1" [] d = 2 -> "2" [] d = 3 -> "3"
      [] d = 4 -> "4" [] d = 5 -> "5" [] d = 6 -> "6" [] d = 7 -> "7"
      [] d = 8 -> "8" [] d = 9 -> "9"

Digits3(n) == <<DigitChar(n \div 100), DigitChar((n \div 10) % 10), DigitChar(n % 10)>>

\* Magnitudes around the edges of the presets, of the degree ranges and of u8.
LatValues == {0, 22, 23, 50, 52, 53, 54, 80, 81, 90, 91, 200, 255, 256}
LonValues == {0, 2, 3, 4, 7, 8, 25, 26, 49, 50, 180, 181, 255, 256}

\* Keys that carry a tile name, bare or inside a directory and with an extension.
TileIdents ==
    {w[1] \o RE_PREFIX \o <<y>> \o Digits3(lat) \o <<x>> \o Digits3(lon) \o RE_SUFFIX \o w[2] :
        w \in {<< <<>>, <<>> >>, << <<"a", "/">>, TIF >>},
        y \in {"N", "S"}, lat \in LatValues, x \in {"E", "W"}, lon \in LonValues}

\* Keys around one tile name, each part right or wrong.
DeviantIdents ==
    {pre \o y \o lat \o x \o lon \o suf :
        pre \in {RE_PREFIX, <<"A", "L", "P", "S", "M", "L", "C", "3", "1", "_">>,
                 <<"A", "L", "P", "S", "M", "L", "C", "3", "0">>},
        y \in {<<"N">>, <<"S">>, <<"X">>, <<>>},
        lat \in {<<"0", "5", "2">>, <<"5", "2">>, <<"0", "0", "5", "2">>, <<"0", "5", "a">>},
        x \in {<<"E">>, <<"W">>, <<"Q">>, <<>>},
        lon \in {<<"0", "0", "4">>, <<"0", "4">>, <<"0", "0", "0", "4">>},
        suf \in {RE_SUFFIX, <<"_", "D", "S", "X">>, <<"D", "S", "M">>, <<"_", "D", "S">>}}

Idents == TileIdents \cup DeviantIdents \cup {Master[e].key : e \in Entries}

ClassInit ==
    /\ ident \in Idents
    /\ set \in Sets
    /\ coordinate = Unparsed
    /\ keep = "unset"
    /\ raster = NoRaster
    /\ pixels = NoPixels
    /\ catalog = <<>>
    /\ signals = TRUE
    /\ run = 1
    /\ prevOutcome = "none"
    /\ ProcInit
    /\ tif = [p \in Entries |-> NoFile]
    /\ pq = [p \in Entries |-> NoOut]
    /\ tif0 = tif
    /\ pq0 = pq

\* re.captures(key).and_then(|cap| Coordinate::try_from(cap).ok())
ParseKey ==
    /\ ident # <<>> /\ coordinate = Unparsed
    /\ coordinate' = Parse(ident)
    /\ UNCHANGED <<ident, keep, raster, pixels, catalog, set, signals>>
    /\ UNCHANGED <<procVars, runVars, tif, pq>>

\* The whole closure: .filter(|&coordinate| set.filter(coordinate)).is_some()
FilterKey ==
    /\ ident # <<>> /\ coordinate # Unparsed /\ keep = "unset"
    /\ keep' = IF KeepKey(set, ident) THEN "kept" ELSE "dropped"
    /\ UNCHANGED <<ident, coordinate, raster, pixels, catalog, set, signals>>
    /\ UNCHANGED <<procVars, runVars, tif, pq>>

ClassNext == ParseKey \/ FilterKey

SpecClassifier == ClassInit /\ [][ClassNext]_vars

-----------------------------------------------------------------------------
(* The decode of write_parquet on its own, over a set of rasters.  The      *)
(* coefficients and coordinates are f64 in the program; the model takes     *)
(* integer values, which f64 holds exactly.                                 *)

\* data.chunks_exact(x_size): the line of row y (from 0).
Chunk(data, w, y) == Slice(data, y * w + 1, (y + 1) * w)

\* Mutant: the two rotation coefficients change places.
LineOutMut(gt, y, line) ==
    [lon |-> [k \in 1..Len(line) |-> gt[1] + (k - 1) * gt[2] + y * gt[5]],
     lat |-> [k \in 1..Len(line) |-> gt[4] + (k - 1) * gt[3] + y * gt[6]],
     elevation |-> line]

\* What the inner for_each pushes for one line: x is the position in the line.
LineOut(gt, y, line) ==
    [lon |-> [k \in 1..Len(line) |-> gt[1] + (k - 1) * gt[2] + y * gt[3]],
     lat |-> [k \in 1..Len(line) |-> gt[4] + (k - 1) * gt[5] + y * gt[6]],
     elevation |-> line]

\* The outer for_each over the enumerated chunks, pushing to the three vectors.
RECURSIVE PushLines(_, _, _, _, _, _)
PushLines(gt, data, w, y, chunks, acc) ==
    IF y >= chunks THEN acc
    ELSE LET out == LineOut(gt, y, Chunk(data, w, y))
         IN  PushLines(gt, data, w, y + 1, chunks,
                       [lat |-> acc.lat \o out.lat,
                        lon |-> acc.lon \o out.lon,
                        elevation |-> acc.elevation \o out.elevation])

\* Lines 166-184 for an opened dataset r.
Transform(r) == PushLines(r.gt, r.data, r.w, 0, Len(r.data) \div r.w, NoPixels)

\* Affine transforms and band-1 samples of the rasters.
GeoTransforms ==
    {<<10, pxW, rotX, 50, rotY, pxH>> :
        pxW \in {1, 2}, rotX \in {0, 3}, rotY \in {0, 5}, pxH \in {-1, -7}}
Samples == {100, 200}

Rasters ==
    UNION {{[w |-> w, h |-> h, gt |-> gt, data |-> d] :
              gt \in GeoTransforms, d \in [1..(w * h) -> Samples]} :
           w \in 1..MaxWidth, h \in 1..MaxHeight}

TransformInit ==
    /\ raster \in Rasters
    /\ pixels = NoPixels
    /\ ident = <<>>
    /\ coordinate = Unparsed
    /\ keep = "unset"
    /\ catalog = <<>>
    /\ set = "World"
    /\ signals = TRUE
    /\ run = 1
    /\ prevOutcome = "none"
    /\ ProcInit
    /\ tif = [p \in Entries |-> NoFile]
    /\ pq = [p \in Entries |-> NoOut]
    /\ tif0 = tif
    /\ pq0 = pq

\* geo_transform, rasterband(1), read_band_as and the two nested for_each.
DecodeRaster ==
    /\ raster # NoRaster /\ pixels = NoPixels
    /\ pixels' = Transform(raster)
    /\ UNCHANGED <<ident, coordinate, keep, raster, catalog, set, signals>>
    /\ UNCHANGED <<procVars, runVars, tif, pq>>

SpecTransform == TransformInit /\ [][DecodeRaster]_vars

-----------------------------------------------------------------------------
(* Properties.                                                             *)

InFlight == {i \in DOMAIN fpc : FetchRunning(i)}
StartedF == {i \in DOMAIN fpc : fpc[i] # "idle"}
StartedW == {i \in DOMAIN wpc : wpc[i] # "idle"}
FetchFailed == \E i \in DOMAIN fpc : fpc[i] \in {"err", "panic"}
WriteFailed == \E i \in DOMAIN wpc : wpc[i] = "panic"
StageFailed == FetchFailed \/ WriteFailed
NoNewStart == StartedF' \subseteq StartedF /\ StartedW' \subseteq StartedW

\* C1: at every point of every run at most one download task has been spawned
\* and has not yet returned, whatever the write tasks are doing.
C1_InFlightBound == Cardinality(InFlight) <= 1

\* C1 witness: a download is in flight while another tile's write task is running.
C1_Witness ==
    \E i \in DOMAIN fpc : \E j \in DOMAIN fpc :
        i # j /\ fpc[i] = "copying" /\ WriteRunning(j)

\* C2: a tile's write task exists only after the tile's own download returned its
\* path, and the tile's output file is created or finished only after the tile's
\* raster has been decoded.
C2_StageOrder ==
    \A i \in DOMAIN wpc :
        /\ wpc[i] # "idle" => FetchOk(i)
        /\ wpc[i] \in {"created", "okWrote"} => decoded[i].ex

\* C2 witness: a tile went through download, decode and write.
C2_Witness ==
    \E i \in DOMAIN wpc : fpc[i] = "okGot" /\ wpc[i] = "okWrote" /\ pq[OutPath(i)].closed

\* C3: when main reaches "Done", every listed object's download returned Ok
\* (fetched or skipped) and its write task returned (written or skipped).
C3_DoneMeansAllDone ==
    pcMain = "done" =>
        /\ DOMAIN fpc = 1..Len(objects)
        /\ \A i \in 1..Len(objects) : FetchOk(i) /\ WriteOk(i)

\* C3 witness: a run over two tiles ended with "Done".
C3_Witness == pcMain = "done" /\ Len(objects) = 2 /\ \E i \in Tiles : wpc[i] = "okWrote"

\* C4 as stated: once any stage of any tile has failed, no download and no write
\* of another tile is started in that run.
C4_NoStartAfterFailure ==
    [][(StageFailed /\ run' = run) => NoNewStart]_vars

\* C4 amended: once a download has failed, or once main has ended with a failure
\* it observed, nothing more is started in that run, and no run with a failed
\* stage ends with "Done".
C4_NoStartAfterObservedFailure ==
    /\ [][((FetchFailed \/ pcMain \in {"err", "panic"}) /\ run' = run) => NoNewStart]_vars
    /\ [](pcMain = "done" => ~StageFailed)

\* C4 witness: main ended with a failure while a listed tile was never started.
C4_Witness ==
    /\ pcMain \in {"err", "panic"}
    /\ StageFailed
    /\ \E i \in DOMAIN fpc : fpc[i] = "idle"

\* C5 as stated: when write_parquet fails after it created the output file, the
\* output path does not exist afterwards.
C5_NoFileAfterWriteFailure ==
    [][\A i \in DOMAIN wpc :
          (wpc[i] = "created" /\ run' = run /\ wpc'[i] = "panic") => ~pq'[OutPath(i)].ex]_vars

\* The raw file and the output file a complete conversion of tile i leaves.
CompleteRaw(i) == [ex |-> TRUE, len |-> SizeOf(i), src |-> KeyOf(i)]
CompleteOut(i) == [ex |-> TRUE, closed |-> TRUE, from |-> CompleteRaw(i)]

\* C6 as stated: a run that follows a killed run and ends with "Done" leaves, for
\* every listed tile, the complete raw file and the complete output file.
C6_ResumeLeavesCompleteFiles ==
    (Alive /\ prevOutcome = "killed" /\ pcMain = "done") =>
        \A i \in Tiles :
            /\ tif[InputPath(i)] = CompleteRaw(i)
            /\ pq[OutPath(i)] = CompleteOut(i)

\* C7 as stated: in a run that follows a run ended with "Done", no download task
\* goes beyond the skip test, no write task goes beyond the skip test, and both
\* directories stay as they were when the run started.
C7_SecondRunOnlySkips ==
    (Alive /\ prevOutcome = "done") =>
        /\ \A i \in DOMAIN fpc : fpc[i] \in {"idle", "start", "okSkip"}
        /\ \A i \in DOMAIN wpc : wpc[i] \in {"idle", "queued", "okSkip"}
        /\ tif = tif0
        /\ pq = pq0

\* C8: a download task leaves its first step by the skip branch (no request, file
\* untouched, Ok) exactly when the file exists with the listed size; otherwise it
\* creates the file anew (or fails to) before any request; a request is only made
\* after that creation, and a task that returns Ok after a transfer leaves the
\* whole remote body in the file.
C8_FetchIffMissingOrOtherSize ==
    [][\A i \in DOMAIN fpc : run' = run =>
          LET p == InputPath(i)
              f == tif[p]
          IN  /\ (fpc[i] = "start" /\ fpc'[i] # "start") =>
                    IF f.ex /\ f.len = SizeOf(i)
                    THEN fpc'[i] = "okSkip" /\ tif' = tif
                    ELSE \/ fpc'[i] = "created" /\ tif'[p] = [ex |-> TRUE, len |-> 0, src |-> KeyOf(i)]
                         \/ fpc'[i] = "err" /\ tif' = tif
              /\ (fpc[i] # "copying" /\ fpc'[i] = "copying") => fpc[i] = "created"
              /\ (fpc[i] # "okGot" /\ fpc'[i] = "okGot") => tif'[p] = CompleteRaw(i)]_vars

\* C8 witness: in one run a tile whose file had the listed size was skipped and a
\* tile whose file was truncated was fetched again.
C8_Witness ==
    \E i \in DOMAIN fpc : \E j \in DOMAIN fpc :
        /\ fpc[i] = "okSkip" /\ tif0[InputPath(i)] = CompleteRaw(i)
        /\ fpc[j] = "okGot" /\ tif0[InputPath(j)].ex /\ tif0[InputPath(j)].len # SizeOf(j)

\* What one listing of the whole catalog, not paginated, keeps.
KeptOfCatalog == SelectSeq(catalog, LAMBDA e : Kept[set][e])

\* C9: the objects handed to the stream are the kept entries of the catalog, each
\* once and in the catalog's order, however the provider cut it into pages.
C9_PagesConcatenated ==
    pcMain \in {"listed", "fill", "pollq", "futures", "done", "panic"} =>
        objects = KeptOfCatalog

\* C9 witness: the listing ended after more than one page (the last page held one
\* of the two kept entries).
C9_Witness ==
    /\ pcMain = "listed"
    /\ Len(objects) = 2
    /\ Len(resp.contents) = 1

\* C10: after every response the next request carries that response's token; the
\* loop goes on after a response whose flag is not false and is left exactly on a
\* response whose flag is false; and with a provider that ends its last page
\* with the flag false the loop is left.
C10_ListingProtocol ==
    /\ [](pcMain \in {"list", "listed"} /\ resp # NoResp =>
              req = resp.next_continuation_token)
    /\ [](pcMain = "list" /\ resp # NoResp => resp.is_truncated # "false")
    /\ [](pcMain = "listed" => resp.is_truncated = "false")
    /\ (signals => <>(pcMain # "list"))

\* C10 witness: a response without a truncation flag left the loop running, its
\* token in the next request.
C10_Witness ==
    /\ pcMain = "list"
    /\ resp.is_truncated = "none"
    /\ req # 0
    /\ req = resp.next_continuation_token

\* C11: in runs without failure, under fair scheduling of main, the download tasks
\* and the blocking closures, a run whose listing ended reaches "Done" with every
\* listed tile's download and write returned Ok and both of its files present.
C11_RunCompletes ==
    (Alive /\ pcMain = "listed") ~>
        /\ pcMain = "done"
        /\ \A i \in Tiles :
              /\ FetchOk(i) /\ WriteOk(i)
              /\ tif[InputPath(i)].ex
              /\ pq[OutPath(i)].ex /\ pq[OutPath(i)].closed

\* C11 witness: a first run over two tiles fetched and wrote both and is done.
C11_Witness ==
    /\ run = 1 /\ pcMain = "done" /\ Len(objects) = 2
    /\ \A i \in Tiles : fpc[i] = "okGot" /\ wpc[i] = "okWrote"

\* The presets as C12 words them.
InBand(b, h, lo, hi) == b.h = h /\ lo <= b.v /\ b.v <= hi
RegionHolds(s, c) ==
    \/ s = "Netherlands" /\ InBand(c.lat, "North", 50, 53) /\ InBand(c.lon, "East", 3, 7)
    \/ /\ s = "Europe" /\ InBand(c.lat, "North", 23, 80)
       /\ (InBand(c.lon, "West", 0, 25) \/ InBand(c.lon, "East", 0, 49))
    \/ s = "World"

\* C12: the listing filter keeps a key exactly when the key parses to a
\* coordinate and the coordinate lies in the selected preset's bands (World:
\* every parsed key); a key that does not parse is dropped under every preset.
C12_FilterKeepsRegion ==
    keep # "unset" =>
        /\ keep = "kept" <=> (coordinate.ok /\ RegionHolds(set, coordinate))
        /\ ~coordinate.ok => keep = "dropped"

\* C12 witness: Europe kept a key on the edge of its West band.
C12_Witness ==
    /\ keep = "kept" /\ set = "Europe"
    /\ coordinate.lat = [h |-> "North", v |-> 80]
    /\ coordinate.lon = [h |-> "West", v |-> 25]

\* The identifier of scenario A, its latitude written with two digits.
ScenarioA ==
    RE_PREFIX \o <<"N", "5", "2", "E", "0", "0", "4">> \o RE_SUFFIX

\* C13 as stated: the identifier of scenario A parses to North 52, East 4 and
\* the Netherlands preset keeps a key that carries it.
C13_TwoDigitLatitudeParses ==
    ident = ScenarioA =>
        /\ coordinate # Unparsed =>
              coordinate = [ok |-> TRUE, lat |-> [h |-> "North", v |-> 52],
                            lon |-> [h |-> "East", v |-> 4]]
        /\ (keep # "unset" /\ set = "Netherlands") => keep = "kept"

\* The structural pattern as the specification words it, found at position p of
\* s with n latitude digits: prefix, N or S, the latitude digits, E or W, three
\* longitude digits, suffix.
ConformsAt(s, p, n) ==
    /\ p + 18 + n <= Len(s)
    /\ Slice(s, p, p + 9) = RE_PREFIX
    /\ s[p + 10] \in {"N", "S"}
    /\ \A k \in 1..n : s[p + 10 + k] \in Digits
    /\ s[p + 11 + n] \in {"E", "W"}
    /\ \A k \in 1..3 : s[p + 11 + n + k] \in Digits
    /\ Slice(s, p + 15 + n, p + 18 + n) = RE_SUFFIX

\* s is the pattern and nothing else; s holds the pattern somewhere.
Conforms(s) == \E n \in {2, 3} : ConformsAt(s, 1, n) /\ Len(s) = 19 + n
ContainsPattern(s) == \E p \in 1..Len(s) : \E n \in {2, 3} : ConformsAt(s, p, n)

\* C14 as stated: an identifier that is not the pattern and nothing else (extra
\* characters before or after it included) never parses and is never kept.
C14_DeviationNeverParses ==
    (ident # <<>> /\ ~Conforms(ident)) =>
        /\ coordinate # Unparsed => coordinate = NotATile
        /\ keep # "unset" => keep = "dropped"

\* C14 amended: an identifier that holds the pattern nowhere (wrong digit count,
\* missing or wrong hemisphere letter, other prefix or suffix) never parses and
\* is never kept, under any preset.
C14_NoPatternNoTile ==
    (ident # <<>> /\ ~ContainsPattern(ident)) =>
        /\ coordinate # Unparsed => coordinate = NotATile
        /\ keep # "unset" => keep = "dropped"

\* C14 witness: a key with the wrong suffix was parsed to NotATile and dropped
\* by World.
C14_Witness ==
    /\ ident = RE_PREFIX \o <<"N", "0", "5", "2", "E", "0", "0", "4", "_", "D", "S", "X">>
    /\ set = "World"
    /\ coordinate = NotATile
    /\ keep = "dropped"

\* C17 as stated: a parsed coordinate has a latitude magnitude of at most 90 and
\* a longitude magnitude of at most 180, and no preset keeps a key that encodes
\* more.
C17_MagnitudesInRange ==
    /\ coordinate.ok => (coordinate.lat.v <= 90 /\ coordinate.lon.v <= 180)
    /\ keep = "kept" => (coordinate.lat.v <= 90 /\ coordinate.lon.v <= 180)

\* The raster of scenario B.
ScenarioB == [w |-> 2, h |-> 1, gt |-> <<10, 1, 0, 50, 0, -1>>, data |-> <<100, 200>>]

\* C15: the decode gives three sequences of length W*H, and for every row y and
\* column x the entry at index y*W + x (from 0) holds lon = originX + x*pxW +
\* y*rotX, lat = originY + x*rotY + y*pxH and the sample of that index; the
\* raster of scenario B gives (50, 10, 100) and (50, 11, 200).
C15_TransformRowMajor ==
    pixels # NoPixels =>
        LET W == raster.w
            H == raster.h
            gt == raster.gt
        IN  /\ Len(pixels.lat) = W * H
            /\ Len(pixels.lon) = W * H
            /\ Len(pixels.elevation) = W * H
            /\ \A y \in 0..(H - 1) : \A x \in 0..(W - 1) :
                  LET i == y * W + x
                  IN  /\ pixels.lon[i + 1] = gt[1] + x * gt[2] + y * gt[3]
                      /\ pixels.lat[i + 1] = gt[4] + x * gt[5] + y * gt[6]
                      /\ pixels.elevation[i + 1] = raster.data[i + 1]
            /\ raster = ScenarioB =>
                  pixels = [lat |-> <<50, 50>>, lon |-> <<10, 11>>,
                            elevation |-> <<100, 200>>]

\* C15 witness: a raster of two rows with both rotations set was decoded.
C15_Witness ==
    /\ pixels # NoPixels
    /\ raster.w = 2 /\ raster.h = 2
    /\ raster.gt = <<10, 2, 3, 50, 5, -7>>
    /\ pixels.lon = <<10, 12, 13, 15>>
    /\ pixels.lat = <<50, 55, 43, 48>>

\* A tile's tasks are at work on its raw file, on its output file.
UsesRaw(i) == FetchRunning(i) \/ wpc[i] \in {"queued", "opening"}
UsesOut(i) == wpc[i] \in {"opening", "decoded", "created"}

\* C16 as stated: no two listed tiles whose tasks are at work at the same time
\* have the same raw path or the same output path; no two write tasks are past
\* the existence check of the same output file together.
C16_NoSharedPath ==
    \A i \in DOMAIN wpc : \A j \in DOMAIN wpc :
        i # j =>
            /\ (UsesRaw(i) /\ UsesRaw(j)) => InputPath(i) # InputPath(j)
            /\ (UsesOut(i) /\ UsesOut(j)) => OutPath(i) # OutPath(j)

\* C18: every write closure (decode and columnar write) that has been spawned
\* runs on the blocking pool and every download task on the I/O workers, so no
\* state has a decode or write on an I/O worker while a download is in flight.
C18_WritesOffIoContexts ==
    /\ \A i \in DOMAIN wpc : wpc[i] # "idle" => pool[i].write = "blocking"
    /\ \A i \in DOMAIN fpc : fpc[i] # "idle" => pool[i].fetch = "io"
    /\ ~\E i \in DOMAIN wpc : \E j \in DOMAIN fpc :
          /\ wpc[i] \in {"queued", "opening", "decoded", "created"} /\ pool[i].write = "io"
          /\ FetchRunning(j)

\* C18 witness: a write closure is busy on the blocking pool while the download
\* of another tile is in flight on the I/O workers.
C18_Witness ==
    \E i \in DOMAIN wpc : \E j \in DOMAIN fpc :
        /\ i # j
        /\ wpc[i] = "created" /\ pool[i].write = "blocking"
        /\ fpc[j] = "copying" /\ pool[j].fetch = "io"

\* C19 as stated: when a write closure that found its output path absent fails
\* in the decode, it has created nothing and the output path is still absent.
C19_DecodeFailureLeavesNoOutput ==
    [][\A i \in DOMAIN wpc :
          (wpc[i] = "opening" /\ run' = run /\ wpc'[i] = "panic") =>
              (pq' = pq /\ ~pq'[OutPath(i)].ex)]_vars

\* C20: a write closure leaves its first step by the skip branch (Ok, no decode,
\* both directories untouched) exactly when its output path exists, whatever
\* the raw file holds; otherwise it goes on to the decode.
C20_WriteSkipOnExistenceOnly ==
    [][\A i \in DOMAIN wpc :
          (wpc[i] = "queued" /\ run' = run /\ wpc'[i] # "queued") =>
              IF pq[OutPath(i)].ex
              THEN /\ wpc'[i] = "okSkip"
                   /\ decoded' = decoded
                   /\ tif' = tif
                   /\ pq' = pq
              ELSE wpc'[i] = "opening"]_vars

\* C20 witness: a tile whose raw file had another size was fetched again in this
\* run, and its write was skipped over an output file made from other content.
C20_Witness ==
    \E i \in DOMAIN wpc :
        /\ fpc[i] = "okGot" /\ wpc[i] = "okSkip"
        /\ tif0[InputPath(i)].ex /\ tif0[InputPath(i)].len # SizeOf(i)
        /\ pq[OutPath(i)].ex /\ pq[OutPath(i)].from # tif[InputPath(i)]

=============================================================================
